---- MODULE Spec2Model ----
(***************************************************************************)
(* A model of mcimeeg/__init__.py: display_mesh (pipeline assembly, the    *)
(* blocking interactive loop and its key-press callback) and               *)
(* _two_color_lut (the diverging lookup table).                            *)
(*                                                                         *)
(* Numbers.  Color channels and table entries are Python floats, modelled  *)
(* as binary64 numbers <<sign, exponent, mantissa>>: the interpolation of  *)
(* _two_color_lut is computed step by step, each step rounded to the       *)
(* nearest binary64, ties to even (overflow, subnormals, infinities, NaN   *)
(* and the sign of zero are not modelled).  Scalar data and the range are  *)
(* only negated, compared and halved, which is exact in binary64 on the    *)
(* grid used here: the float x is modelled as the integer x * One.         *)
(*                                                                         *)
(* VTK.  The native objects are modelled by what the calls made by the     *)
(* source do to them: vtkLookupTable (number of colors, range, table,      *)
(* vector component, default 0), the render window (finalized or not) and  *)
(* the interactor's event loop (Start blocks until TerminateApp or the     *)
(* window is closed; an exception raised by a Python observer is reported  *)
(* by the wrapper and the loop goes on).                                   *)
(***************************************************************************)
EXTENDS Integers, Sequences, FiniteSets

\* ------------------------------------------------------------------ bounds

\* Largest number of cells (rows times columns) of vertex_data a call is given.
MaxCells == 2

\* --------------------------------------------------------------- constants

\* The image of the float 1.0 among scalar data (line 74: max = 1.0).
One == 5100
\* lut.SetNumberOfColors(512)
NumberOfColors == 512
\* range(256): the length of each half of the table
HalfColors == 256
\* the divisor 255.0 of both interpolation loops
Divisor == 255

\* Python's None, a local name that was never bound and a table entry that was
\* never written: each is the empty tuple, which no array, table or color equals.
None == <<>>
Unbound == <<>>
Unset == <<>>

VARIABLES
    pc,                 \* where the program is: idle, loop, done, raised, lut_returned
    vertices,           \* len(vertices) of the display_mesh call (None before)
    vertex_data,        \* the vertex_data argument of the call (None when absent)
    built,              \* the native structures display_mesh has constructed
    data,               \* display_mesh's local `data` (Unbound unless line 67 ran)
    lutArgs,            \* the arguments of the _two_color_lut call (None before)
    lut,                \* the vtkLookupTable it returned (vtk_lut), or Unbound
    current_component,  \* display_mesh's closure variable
    finalized,          \* the render window has been finalized (released)
    terminated,         \* the event loop has been told to stop
    finalizeCalls,      \* calls of rendering_window.Finalize() made by the source
    terminateCalls,     \* calls of interactor.TerminateApp() made by the source
    error,              \* the exception display_mesh raised to its caller
    lastCallback,       \* what the last _key_press call saw and did
    lastRender          \* what the last redraw request saw

vars == <<pc, vertices, vertex_data, built, data, lutArgs, lut, current_component,
          finalized, terminated, finalizeCalls, terminateCalls, error,
          lastCallback, lastRender>>

\* ---------------------------------------------------------------- binary64

\* A natural number below LimbBase^3 = 2^66 as three digits in base
\* LimbBase = 2^LimbBits, least significant first.
LimbBits == 22
LimbBase == 4194304

\* Digit k of a, 0 outside 1..3.
Limb(a, k) == IF k >= 1 /\ k <= 3 THEN a[k] ELSE 0

\* Digits that may each exceed or fall below a digit's range, carried (or
\* borrowed) upward.
Carry2(t1, t2, u3) == <<t1 % LimbBase, t2 % LimbBase, (u3 + t2 \div LimbBase) % LimbBase>>
Carry(u1, u2, u3) == Carry2(u1, u2 + u1 \div LimbBase, u3)

\* a + b
WideAdd(a, b) == Carry(a[1] + b[1], a[2] + b[2], a[3] + b[3])

\* a - b for a >= b
WideSub(a, b) == Carry(a[1] - b[1], a[2] - b[2], a[3] - b[3])

\* a * w for 0 <= w < 256
WideMul(a, w) == Carry(a[1] * w, a[2] * w, a[3] * w)

\* -1, 0, 1 as a < b, a = b, a > b
WideCmp(a, b) ==
    IF a[3] # b[3] THEN (IF a[3] < b[3] THEN -1 ELSE 1)
    ELSE IF a[2] # b[2] THEN (IF a[2] < b[2] THEN -1 ELSE 1)
    ELSE IF a[1] # b[1] THEN (IF a[1] < b[1] THEN -1 ELSE 1)
    ELSE 0

\* a divided by d, 0 < d < 256: the quotient q and the remainder r, the digits
\* divided from the most significant down, each with the remainder above it.
Div1(t1, t2, t3, d) == [q |-> <<t1 \div d, t2 \div d, t3 \div d>>, r |-> t1 % d]
Div2(a, t2, t3, d) == Div1((t2 % d) * LimbBase + a[1], t2, t3, d)
WideDivMod(a, d) == Div2(a, (a[3] % d) * LimbBase + a[2], a[3], d)

\* a * 2^(LimbBits * whole) * p, with p = 2^s, r = 2^(LimbBits - s) and
\* 0 <= s < LimbBits, for a result below LimbBase^3
ShlDigit(a, whole, p, r, k) ==
    (Limb(a, k - whole) % r) * p + Limb(a, k - whole - 1) \div r
ShlDigits(a, whole, p, r) ==
    <<ShlDigit(a, whole, p, r, 1), ShlDigit(a, whole, p, r, 2), ShlDigit(a, whole, p, r, 3)>>

\* a * 2^n, for a result below LimbBase^3
WideShl(a, n) ==
    ShlDigits(a, n \div LimbBits, 2 ^ (n % LimbBits), 2 ^ (LimbBits - (n % LimbBits)))

\* floor(a / (2^(LimbBits * whole) * p)), with p and r as above
ShrDigit(a, whole, p, r, k) ==
    Limb(a, k + whole) \div p + (Limb(a, k + whole + 1) % p) * r
ShrDigits(a, whole, p, r) ==
    <<ShrDigit(a, whole, p, r, 1), ShrDigit(a, whole, p, r, 2), ShrDigit(a, whole, p, r, 3)>>

\* floor(a / 2^n)
WideShr(a, n) ==
    ShrDigits(a, n \div LimbBits, 2 ^ (n % LimbBits), 2 ^ (LimbBits - (n % LimbBits)))

\* The number of bits of a digit v: 0 for zero.
BitLen(v) == Cardinality({n \in 0..(LimbBits - 1) : 2 ^ n <= v})

\* The number of bits of a: 0 for zero.
WideBitLen(a) ==
    IF a[3] # 0 THEN LimbBits * 2 + BitLen(a[3])
    ELSE IF a[2] # 0 THEN LimbBits + BitLen(a[2])
    ELSE BitLen(a[1])

\* A Python float (binary64): <<sign, exponent, mantissa>> stands for
\* sign * mantissa * 2^exponent, with sign 1 or -1 and the mantissa a natural
\* number of exactly Precision bits in three digits; zero is FloatZero.
Precision == 53
FloatZero == <<0, 0, <<0, 0, 0>>>>

\* sign * m * 2^e for a mantissa m of Precision bits, or of one bit more after
\* a round up that carried.
Renormalize(sign, m, e) ==
    IF WideBitLen(m) > Precision
    THEN <<sign, e + 1, WideShr(m, 1)>>
    ELSE <<sign, e, m>>

\* sign * q * 2^e rounded up or not, where the bits dropped below q were rem
\* and one half of q's last place is half; a tie goes to the even mantissa.
RoundTie(sign, q, e, rem, half) ==
    IF rem > half \/ (rem = half /\ q[1] % 2 = 1)
    THEN Renormalize(sign, WideAdd(q, <<1, 0, 0>>), e)
    ELSE Renormalize(sign, q, e)

\* sign * n * 2^e, n of len bits, as a binary64: a short n is shifted up, a
\* long one loses its low len - Precision bits (fewer than LimbBits, as n is
\* below 2^66), which are those of its first digit.
RoundBits(sign, n, e, len) ==
    IF len = 0 THEN FloatZero
    ELSE IF len <= Precision
    THEN <<sign, e - (Precision - len), WideShl(n, Precision - len)>>
    ELSE RoundTie(sign, WideShr(n, len - Precision), e + (len - Precision),
                  n[1] % (2 ^ (len - Precision)), 2 ^ (len - Precision - 1))

\* sign * n * 2^e rounded to the nearest binary64, ties to even.
RoundToNearestEven(sign, n, e) == RoundBits(sign, n, e, WideBitLen(n))

\* Bits kept below the mantissas in an addition: guard, round and sticky.
AlignBits == 3

\* n with its last bit set when bits were dropped from it.
Sticky(n, dropped) ==
    IF dropped /\ n[1] % 2 = 0 THEN WideAdd(n, <<1, 0, 0>>) ELSE n

\* floor(n / 2^d), with its last bit set when the division dropped a nonzero bit.
ShrSticky(n, d, q) == Sticky(q, WideShl(q, d) # n)

\* sx * nx * 2^e + sy * ny * 2^e for opposite signs, c comparing nx with ny.
AddOpposite(sx, nx, sy, ny, e, c) ==
    IF c = 0 THEN FloatZero
    ELSE IF c > 0 THEN RoundToNearestEven(sx, WideSub(nx, ny), e)
    ELSE RoundToNearestEven(sy, WideSub(ny, nx), e)

\* sx * nx * 2^e + sy * ny * 2^e
AddAligned(sx, nx, sy, ny, e) ==
    IF sx = sy THEN RoundToNearestEven(sx, WideAdd(nx, ny), e)
    ELSE AddOpposite(sx, nx, sy, ny, e, WideCmp(nx, ny))

\* x + y for nonzero x and y, the exponent of x not below that of y: y is
\* brought to the exponent of x, AlignBits below it.
AddTo(x, y, ny) ==
    AddAligned(x[1], WideShl(x[3], AlignBits),
               y[1], ShrSticky(ny, x[2] - y[2], WideShr(ny, x[2] - y[2])),
               x[2] - AlignBits)

\* x + y
FloatAdd(x, y) ==
    IF x[1] = 0 THEN y
    ELSE IF y[1] = 0 THEN x
    ELSE IF x[2] >= y[2] THEN AddTo(x, y, WideShl(y[3], AlignBits))
    ELSE AddTo(y, x, WideShl(x[3], AlignBits))

\* x - y
FloatSub(x, y) == FloatAdd(x, <<-y[1], y[2], y[3]>>)

\* x * i, i an int, 0 <= i < 256 (the int converts to a float exactly)
FloatMulInt(x, i) ==
    IF x[1] = 0 \/ i = 0 THEN FloatZero
    ELSE RoundToNearestEven(x[1], WideMul(x[3], i), x[2])

\* Bits of the quotient kept below the mantissa before rounding.
GuardBits == 10

\* sign * (q + f) * 2^e for a quotient q and a fraction 0 <= f < 1 that is
\* zero exactly when the remainder r is: one more bit records whether f > 0.
RoundQuotient(sign, qr, e) ==
    RoundToNearestEven(sign,
        Carry(qr.q[1] * 2 + (IF qr.r = 0 THEN 0 ELSE 1), qr.q[2] * 2, qr.q[3] * 2),
        e - 1)

\* x / d, d a float with an integer value, 0 < d < 256
FloatDivInt(x, d) ==
    IF x[1] = 0 THEN FloatZero
    ELSE RoundQuotient(x[1], WideDivMod(WideShl(x[3], GuardBits), d), x[2] - GuardBits)

\* The float of a natural number n < LimbBase.
FromInt(n) == RoundToNearestEven(1, <<n, 0, 0>>, 0)

\* The float a decimal literal of n tenths denotes (0.9 is Tenths(9)): the
\* binary64 nearest to n / 10.
Tenths(n) == FloatDivInt(FromInt(n), 10)

\* The float 1.0
FloatOne == FromInt(1)

\* ------------------------------------------------------------------ inputs

\* Values of vertex_data cells: -1.0, 0.0 and 0.5.
DataValues == {-One, 0, One \div 2}

\* A numpy array of shape (r, c): its shape and its rows.
Arrays(r, c) == { [shape |-> <<r, c>>, rows |-> m] : m \in [1..r -> [1..c -> DataValues]] }

\* The shapes (N, T) of vertex_data: no row, or up to MaxCells cells.
Shapes == { sh \in (0..MaxCells) \X (1..MaxCells) : sh[1] * sh[2] <= MaxCells }

VertexDataInputs ==
    {None} \cup UNION { Arrays(sh[1], sh[2]) : sh \in Shapes }

\* len(vertices): a mesh with no vertex, and a mesh of one vertex.
VertexCounts == {0, 1}

\* Anchor colors: blue (0.0, 0.0, 1.0), light gray (0.9, 0.9, 0.9) and green
\* (0.0, 1.0, 0.0), the defaults; display_mesh's start (1.0, 0.5, 0.5); and a
\* dark gray (0.2, 0.2, 0.2).  Colors are the anchors a direct call is given;
\* an anchor it leaves out (None) takes its default.
Blue == <<Tenths(0), Tenths(0), Tenths(10)>>
LightGray == <<Tenths(9), Tenths(9), Tenths(9)>>
Green == <<Tenths(0), Tenths(10), Tenths(0)>>
Salmon == <<Tenths(10), Tenths(5), Tenths(5)>>
DarkGray == <<Tenths(2), Tenths(2), Tenths(2)>>
Colors == {Salmon, DarkGray}

\* (minimum, maximum) pairs given to a direct _two_color_lut call.
Ranges == {<<-One, One>>, <<0, One \div 2>>}

\* ------------------------------------------------------- vtkLookupTable

\* vtk.vtkLookupTable(): no table yet, vector component 0.  The table holds,
\* for each index, the values the source passes to SetTableValue.
vtkLookupTable ==
    [numberOfColors |-> 0, range |-> <<0, One>>, table |-> <<>>,
     vectorComponent |-> 0, isBuilt |-> FALSE]

\* lut.SetNumberOfColors(n): n entries, none of them written.
SetNumberOfColors(l, n) ==
    [l EXCEPT !.numberOfColors = n, !.table = [i \in 0..(n - 1) |-> Unset]]

\* x * 0.5
Half(x) == (x * (One \div 2)) \div One

\* lut.SetRange(lo, hi)
SetRange(l, lo, hi) == [l EXCEPT !.range = <<lo, hi>>]

\* lut.Build(): the entries were set by hand, so nothing is regenerated.
Build(l) == [l EXCEPT !.isBuilt = TRUE]

\* A variant of SetVectorComponent that loses the update.
SetVectorComponentDropped(l, c) == l

\* lut.SetVectorComponent(c)
SetVectorComponent(l, c) == [l EXCEPT !.vectorComponent = c]

\* --------------------------------------------------------- _two_color_lut

\* Lines 149-154: an anchor left out takes its default.
DefaultColor(given, default) == IF given = None THEN default ELSE given

\* Lines 162-164 and 169-171, one channel: (b - a) * w / 255.0 + a, evaluated
\* left to right, each operation rounded.
Interpolate(a, b, w) ==
    FloatAdd(FloatDivInt(FloatMulInt(FloatSub(b, a), w), Divisor), a)

\* Lines 160-165: entry i of the lower half,
\* ((middle[k] - start[k]) * i / 255.0 + start[k] for k = 0, 1, 2, then 1.0).
LowerEntry(start, middle, i) ==
    << Interpolate(start[1], middle[1], i),
       Interpolate(start[2], middle[2], i),
       Interpolate(start[3], middle[3], i),
       FloatOne >>

\* Lines 167-172: entry 256 + i of the upper half,
\* ((middle[k] - end[k]) * (255 - i) / 255.0 + end[k] for k = 0, 1, 2, then 1.0).
UpperEntry(middle, end, i) ==
    << Interpolate(end[1], middle[1], Divisor - i),
       Interpolate(end[2], middle[2], Divisor - i),
       Interpolate(end[3], middle[3], Divisor - i),
       FloatOne >>

\* Lines 159-165: for i in reversed(range(256)): lut.SetTableValue(i, ...).
\* Each iteration writes its own entry i, so the loop as a whole leaves entry k
\* of the table as the iteration i = k set it, and the others as they were.
LowerLoop(l, start, middle) ==
    [l EXCEPT !.table = [k \in DOMAIN l.table |->
        IF k \in 0..(HalfColors - 1)
        THEN LowerEntry(start, middle, k)
        ELSE l.table[k]]]

\* Lines 166-172: for i in range(256): lut.SetTableValue(256 + i, ...).
UpperLoop(l, middle, end) ==
    [l EXCEPT !.table = [k \in DOMAIN l.table |->
        IF k - HalfColors \in 0..(HalfColors - 1)
        THEN UpperEntry(middle, end, k - HalfColors)
        ELSE l.table[k]]]

\* _two_color_lut(minimum, maximum, start, middle, end)
two_color_lut(minimum, maximum, start, middle, end) ==
    Build(
        UpperLoop(
            LowerLoop(
                SetRange(SetNumberOfColors(vtkLookupTable, NumberOfColors),
                         Half(minimum), Half(maximum)),
                DefaultColor(start, Blue), DefaultColor(middle, LightGray)),
            DefaultColor(middle, LightGray), DefaultColor(end, Green)))

\* ------------------------------------------------------------------ numpy

Abs(x) == IF x < 0 THEN -x ELSE x

\* data flattened in row-major order, rows i..shape[0].
RECURSIVE Flatten(_, _)
Flatten(a, i) == IF i > a.shape[1] THEN <<>> ELSE a.rows[i] \o Flatten(a, i + 1)

\* The largest of a non-empty sequence of numbers.
RECURSIVE MaxOf(_)
MaxOf(s) ==
    IF Len(s) = 1 THEN s[1]
    ELSE LET r == MaxOf(Tail(s)) IN IF s[1] > r THEN s[1] ELSE r

\* np.abs(data): elementwise.
np_abs(a) == [a EXCEPT !.rows = [i \in DOMAIN a.rows |-> [j \in DOMAIN a.rows[i] |-> Abs(a.rows[i][j])]]]

\* ndarray.max() raises ValueError on an array with no element.
max_raises(a) == a.shape[1] * a.shape[2] = 0

\* np.abs(data).max(), for an array with at least one element.
np_abs_max(a) == MaxOf(Flatten(np_abs(a), 1))

\* np.clip(a, a_min, a_max)
np_clip(a, a_min, a_max) ==
    IF a < a_min THEN a_min ELSE IF a > a_max THEN a_max ELSE a

\* ------------------------------------------------------------ display_mesh

\* Lines 72-74: max = np.abs(data).max(); if max == 0: max = 1.0
ColorScaleMagnitude(a) ==
    LET m == np_abs_max(a) IN IF m = 0 THEN One ELSE m

\* What lines 28-61 construct, whatever vertex_data is.
Geometry ==
    {"renderer", "render_window", "interactor", "points", "triangles",
     "polydata", "mapper"}

\* The vector component the mapper would color by, None without a table.
Selector(l) == IF l = Unbound THEN None ELSE l.vectorComponent

\* A redraw request: what it sees at the moment it is issued.
Render(l, c, f) == [selector |-> Selector(l), component |-> c, finalized |-> f]

\* display_mesh(vertices, triangles, vertex_data), lines 28-139, up to the
\* blocking interactor.Start(); n is len(vertices), vd is vertex_data.
display_mesh(n, vd) ==
    /\ pc = "idle"
    /\ vertices' = n
    /\ vertex_data' = vd
    /\ UNCHANGED <<current_component, finalized, terminated, finalizeCalls,
                   terminateCalls, lastCallback>>
    /\ IF vd = None
       THEN /\ data' = Unbound
            /\ lutArgs' = None
            /\ lut' = Unbound
            /\ built' = Geometry \cup {"actor"}
            /\ error' = "none"
            /\ lastRender' = Render(Unbound, 0, FALSE)
            /\ pc' = "loop"
       ELSE /\ data' = vd
            /\ IF max_raises(vd)
               THEN /\ lutArgs' = None
                    /\ lut' = Unbound
                    /\ built' = Geometry \cup {"color_array"}
                    /\ error' = "ValueError"
                    /\ lastRender' = None
                    /\ pc' = "raised"
               ELSE LET max == ColorScaleMagnitude(vd)
                        l == two_color_lut(-max, max, Salmon, None, None)
                    IN /\ lutArgs' = [minimum |-> -max, maximum |-> max,
                                      start |-> Salmon, middle |-> None, end |-> None]
                       /\ lut' = l
                       /\ built' = Geometry \cup {"color_array", "lut", "actor"}
                       /\ error' = "none"
                       /\ lastRender' = Render(l, 0, FALSE)
                       /\ pc' = "loop"

\* A direct call _two_color_lut(minimum=r[1], maximum=r[2], start, middle, end).
two_color_lut_call(r, start, middle, end) ==
    /\ pc = "idle"
    /\ lutArgs' = [minimum |-> r[1], maximum |-> r[2],
                   start |-> start, middle |-> middle, end |-> end]
    /\ lut' = two_color_lut(r[1], r[2], start, middle, end)
    /\ pc' = "lut_returned"
    /\ UNCHANGED <<vertices, vertex_data, built, data, current_component, finalized,
                   terminated, finalizeCalls, terminateCalls, error, lastCallback,
                   lastRender>>

\* -------------------------------------------------------------- _key_press

\* obj.GetKeySym(): the two arrows, q, and a key the callback does not name.
Keys == {"Right", "Left", "q", "w"}

\* A variant of NextComponent that clamps to the last column, columns - 1.
NextComponentLastColumn(key, c, columns) ==
    CASE key = "Right" -> np_clip(c + 1, 0, columns - 1)
      [] key = "Left" -> np_clip(c - 1, 0, columns - 1)
      [] OTHER -> c

\* Lines 111-121: the new current_component for key, with columns = data.shape[1].
NextComponent(key, c, columns) ==
    CASE key = "Right" -> np_clip(c + 1, 0, columns)
      [] key = "Left" -> np_clip(c - 1, 0, columns)
      [] OTHER -> c

\* Lines 113 and 119 read `data`, a free variable of the closure: NameError
\* when display_mesh never bound it.
RaisesNameError(key) == key \in {"Right", "Left"} /\ data = Unbound

\* A variant of RendersAfter that redraws only when an arrow changed the index.
RendersAfterArrows(key) == key \in {"Right", "Left"}

\* Line 130, outside the if/elif chain: every key that completes the handler
\* requests a redraw.
RendersAfter(key) == TRUE

\* _key_press(obj, event) with obj.GetKeySym() = key.
key_press(key) ==
    /\ pc = "loop"
    /\ ~terminated
    /\ UNCHANGED <<pc, vertices, vertex_data, built, data, lutArgs, error>>
    /\ IF RaisesNameError(key)
       THEN /\ lastCallback' = [key |-> key, before |-> current_component,
                                selectorBefore |-> Selector(lut),
                                rendered |-> FALSE, raised |-> "NameError"]
            /\ UNCHANGED <<lut, current_component, finalized, terminated,
                           finalizeCalls, terminateCalls, lastRender>>
       ELSE LET c == IF key \in {"Right", "Left"}
                     THEN NextComponent(key, current_component, data.shape[2])
                     ELSE current_component
                l == IF key \in {"Right", "Left"} THEN SetVectorComponent(lut, c) ELSE lut
                quit == key = "q"
                n == IF quit THEN 1 ELSE 0
            IN /\ current_component' = c
               /\ lut' = l
               /\ finalized' = (finalized \/ quit)
               /\ terminated' = (terminated \/ quit)
               /\ finalizeCalls' = finalizeCalls + n
               /\ terminateCalls' = terminateCalls + n
               /\ lastRender' = IF RendersAfter(key)
                                THEN Render(l, c, finalized \/ quit)
                                ELSE lastRender
               /\ lastCallback' = [key |-> key, before |-> current_component,
                                   selectorBefore |-> Selector(lut),
                                   rendered |-> RendersAfter(key), raised |-> "none"]

\* The user closes the window: the toolkit stops the event loop.
close_window ==
    /\ pc = "loop"
    /\ ~terminated
    /\ terminated' = TRUE
    /\ UNCHANGED <<pc, vertices, vertex_data, built, data, lutArgs, lut,
                   current_component, finalized, finalizeCalls, terminateCalls,
                   error, lastCallback, lastRender>>

\* interactor.Start() returns; lines 141-143 run.
cleanup ==
    /\ pc = "loop"
    /\ terminated
    /\ finalized' = TRUE
    /\ finalizeCalls' = finalizeCalls + 1
    /\ terminateCalls' = terminateCalls + 1
    /\ pc' = "done"
    /\ UNCHANGED <<vertices, vertex_data, built, data, lutArgs, lut,
                   current_component, terminated, error, lastCallback, lastRender>>

\* ----------------------------------------------------------- specification

Init ==
    /\ pc = "idle"
    /\ vertices = 0
    /\ vertex_data = None
    /\ built = {}
    /\ data = Unbound
    /\ lutArgs = None
    /\ lut = Unbound
    /\ current_component = 0
    /\ finalized = FALSE
    /\ terminated = FALSE
    /\ finalizeCalls = 0
    /\ terminateCalls = 0
    /\ error = "none"
    /\ lastCallback = None
    /\ lastRender = None

Next ==
    \/ \E n \in VertexCounts, vd \in VertexDataInputs : display_mesh(n, vd)
    \/ \E r \in Ranges, s \in Colors \cup {None}, m \in Colors \cup {None},
          e \in Colors \cup {None} : two_color_lut_call(r, s, m, e)
    \/ \E key \in Keys : key_press(key)
    \/ close_window
    \/ cleanup

Spec == Init /\ [][Next]_vars

\* ------------------------------------------------------------------ claims

Min(a, b) == IF a < b THEN a ELSE b
Max(a, b) == IF a > b THEN a ELSE b

\* The session has a scalar field: display_mesh bound `data` and built the table.
HasScalarField == data # Unbound /\ lut # Unbound

\* The cells of an array.
Cells(a) == { a.rows[i][j] : i \in 1..a.shape[1], j \in 1..a.shape[2] }

\* The last key event was key-press `keys`.
LastKeyIn(keys) == lastCallback # None /\ lastCallback.key \in keys

\* C1: in a session with a scalar field of column_count columns, a Right key
\* event at index c sets the active component index to min(c + 1, column_count)
\* and a Left key event sets it to max(c - 1, 0); the index reaches column_count.
C1_ArrowKeysClampToColumnCount ==
    (HasScalarField /\ LastKeyIn({"Right", "Left"})) =>
        LET c == lastCallback.before
            column_count == data.shape[2]
        IN /\ c \in 0..column_count
           /\ lastCallback.key = "Right" => current_component = Min(c + 1, column_count)
           /\ lastCallback.key = "Left" => current_component = Max(c - 1, 0)

\* C1's case: Right at index column_count - 1 has moved the index to column_count.
C1_Witness ==
    /\ HasScalarField
    /\ LastKeyIn({"Right"})
    /\ lastCallback.before = data.shape[2] - 1
    /\ current_component = data.shape[2]

\* C2: in every reachable state of a session with a scalar field the active
\* component index lies in [0, columns - 1], so it selects an existing column.
C2_IndexSelectsExistingColumn ==
    (HasScalarField /\ vertex_data.shape[1] = vertices) => current_component \in 0..(data.shape[2] - 1)

\* C3: q is the terminal transition: once it has been handled no later key event
\* is processed, and no repaint is requested on the released render target.
C3_QuitIsTerminal ==
    /\ (terminated /\ finalizeCalls > 0 /\ pc = "loop") => LastKeyIn({"q"})
    /\ lastRender # None => ~lastRender.finalized

\* C4: in every session the cleanup (release of the render target, termination of
\* the event loop) has executed exactly once when display_mesh returns, whether
\* shutdown came from q or from closing the window.
C4_CleanupRunsOnce ==
    pc = "done" => (finalizeCalls = 1 /\ terminateCalls = 1)

\* C5 as stated: a key event whose key is not Right, Left or q leaves the active
\* component index and the selector unchanged and requests no repaint.
C5_OtherKeyNoRepaint ==
    (LastKeyIn(Keys \ {"Right", "Left", "q"}) /\ pc = "loop" /\ ~terminated) =>
        /\ current_component = lastCallback.before
        /\ Selector(lut) = lastCallback.selectorBefore
        /\ ~lastCallback.rendered

\* C5 as amended: a key event whose key is not Right, Left or q leaves the active
\* component index and the selector unchanged, and the handler requests a repaint
\* of the render target all the same, showing that unchanged component.
C5_OtherKeyKeepsComponentAndRepaints ==
    (LastKeyIn(Keys \ {"Right", "Left", "q"}) /\ pc = "loop" /\ ~terminated) =>
        /\ current_component = lastCallback.before
        /\ Selector(lut) = lastCallback.selectorBefore
        /\ lastCallback.raised = "none"
        /\ lastCallback.rendered
        /\ lastRender = Render(lut, lastCallback.before, FALSE)

\* C5's case: another key was handled while a component past the first is shown.
C5_Witness ==
    /\ HasScalarField
    /\ LastKeyIn({"w"})
    /\ pc = "loop" /\ ~terminated
    /\ current_component > 0

\* C6: display_mesh called with vertex_data whose row count differs from the
\* number of vertices fails with ShapeMismatch before any native structure is
\* built, and the interactive loop is never entered.
C6_ShapeMismatchFailsFast ==
    (pc # "idle" /\ vertex_data # None /\ vertex_data.shape[1] # vertices) =>
        /\ pc = "raised"
        /\ error = "ShapeMismatch"
        /\ built = {}

\* C7: for every vertex_data supplied to display_mesh the ColorScale is
\* requested with minimum = -m and maximum = +m, where m is the largest absolute
\* value of a cell, or 1.0 when that is 0; so minimum < 0 < maximum.
C7_ColorScaleRangeSymmetric ==
    (pc # "idle" /\ vertex_data # None) =>
        /\ lutArgs # None
        /\ LET m == lutArgs.maximum
               magnitudes == { Abs(v) : v \in Cells(vertex_data) }
           IN /\ lutArgs.minimum = -m
              /\ \A a \in magnitudes : a <= m
              /\ \/ m \in magnitudes /\ m # 0
                 \/ magnitudes = {0} /\ m = One
              /\ lutArgs.minimum < 0
              /\ 0 < lutArgs.maximum

\* C8: the table _two_color_lut returns has exactly 512 entries, every index
\* 0..511 written; entry 0 is start, entries 255 and 256 are middle, entry 511
\* is end, and every entry has alpha 1.
C8_TableAnchors ==
    (lut # Unbound /\ lutArgs # None) =>
        LET start == IF lutArgs.start = None THEN Blue ELSE lutArgs.start
            middle == IF lutArgs.middle = None THEN LightGray ELSE lutArgs.middle
            end == IF lutArgs.end = None THEN Green ELSE lutArgs.end
        IN /\ DOMAIN lut.table = 0..511
           /\ \A i \in 0..511 : lut.table[i] # Unset /\ lut.table[i][4] = FloatOne
           /\ lut.table[0] = start \o <<FloatOne>>
           /\ lut.table[255] = middle \o <<FloatOne>>
           /\ lut.table[256] = middle \o <<FloatOne>>
           /\ lut.table[511] = end \o <<FloatOne>>

\* C9: in a session with a scalar field, whenever a redraw is issued the
\* ColorScale's active-component selector equals the active component index;
\* both start at 0, and each arrow callback updates the selector before its redraw.
C9_SelectorMatchesIndexAtRedraw ==
    (HasScalarField /\ lastRender # None) =>
        /\ lastRender.selector = lastRender.component
        /\ lastRender.component = current_component
        /\ lastCallback = None => lastRender.selector = 0

\* C9's case: a redraw issued by a Right callback that moved the index off 0.
C9_Witness ==
    /\ HasScalarField
    /\ LastKeyIn({"Right"})
    /\ lastCallback.rendered
    /\ lastRender.component = lastCallback.before + 1
    /\ lastRender.selector = lastCallback.before + 1

\* C10: in a session opened without vertex_data every Right or Left key event
\* completes without raising an error.
C10_ArrowsWithoutDataDoNotRaise ==
    (pc \in {"loop", "done"} /\ vertex_data = None /\ LastKeyIn({"Right", "Left"})) =>
        lastCallback.raised = "none"

====
